---- MODULE Spec2Model ----
(***************************************************************************)
(* Model of the assetto-corsa-gym bridge core: the drift-correcting        *)
(* Ticker (ac_bridge/timing.py), the telemetry poller and single-slot      *)
(* cache of ACBridgeLocal (ac_bridge/client.py) and the RealTimeStepper    *)
(* (ac_bridge/stepper.py).                                                 *)
(*                                                                         *)
(* Time is exact and discrete: one second is UnitsPerSecond clock units,   *)
(* so 1/hz is an integer for the frequencies used and the clock arithmetic   *)
(* is exact.  The clock is event driven: it moves when a thread wakes from *)
(* a sleep or spends time between two calls.                               *)
(***************************************************************************)
EXTENDS Integers, Sequences, FiniteSets, TLC

VARIABLES
    now,        \* the monotonic clock, time.perf_counter()
    ticker,     \* the Ticker objects, by owner
    start_seq,  \* the start_seq each Ticker was last constructed/reset with
    nticks,     \* ticks emitted by each Ticker since construction/reset
    ret,        \* the last tuple __next__ returned, per Ticker
    wasLate,    \* some tick since construction/reset woke after its deadline
    resets,     \* Ticker.reset() calls made so far
    lateBudget, \* clock units of delay the environment may still inject
    running,    \* ACBridgeLocal._running
    connected,  \* ACBridgeLocal._connected
    latest_frame,     \* ACBridgeLocal._latest_frame
    telemetry_thread, \* ACBridgeLocal._telemetry_thread (a poller id, 0 = None)
    poller,     \* the poller threads ever started: where each is in its loop
    src,        \* the telemetry source: is_connected()
    pubCount,   \* frames published so far
    budget,     \* bounded operations the threads may still start
    cpc,        \* where the caller's thread is
    cargs,      \* what the caller's current call remembers
    step_count, \* RealTimeStepper.step_count
    last_action,\* RealTimeStepper.last_action
    smoother,   \* ActionSmoother state
    actuator,   \* the controls last written to the vJoy device
    stepTrace,  \* what the current step() has done so far, in order
    stepRet,    \* how the last step() / reset() of the stepper ended
    reader      \* the other consumer threads calling latest_obs()

tvars == <<now, ticker, start_seq, nticks, ret, wasLate, resets, lateBudget>>

bvars == <<running, connected, latest_frame, telemetry_thread, poller, src,
          pubCount>>

svars == <<cpc, cargs, step_count, last_action, smoother, actuator, stepTrace, stepRet>>

vars == <<now, ticker, start_seq, nticks, ret, wasLate, resets, lateBudget,
          running, connected, latest_frame, telemetry_thread, poller, src,
          pubCount, budget, cpc, cargs, step_count, last_action, smoother, actuator,
          stepTrace, stepRet, reader>>

----------------------------------------------------------------------------
(* Bounds *)

MaxTicks == 2       \* ticks per Ticker in the free-running Ticker spec
MaxLate == 1        \* total injected delay, in clock units
MaxResets == 1      \* Ticker.reset() calls
MaxStartSeq == 2    \* the non-zero start_seq tried

(* Program constants *)

UnitsPerSecond == 120   \* clock resolution of the model: 1 s = 120 units
ControlHz == 10         \* control_hz default
TelemetryHz == 60       \* telemetry_hz default
ScenarioTicks == 50     \* the 50-tick scenario

None == "None"

TickerIds == {"control", "telemetry"}

StartSeqs == {0, MaxStartSeq}

Abs(x) == IF x < 0 THEN -x ELSE x

Max(a, b) == IF a > b THEN a ELSE b

Min(a, b) == IF a < b THEN a ELSE b

----------------------------------------------------------------------------
(* Ticker, timing.py *)

\* a constructor that also refuses 1 Hz
TickerInitRaises_OneHz(hz) == hz <= 1

\* Ticker.__init__, lines 69-70: the check that raises ValueError
TickerInitRaises(hz) == hz <= 0

\* Ticker.__init__ (hz > 0) at clock reading t
TickerNew(hz, s, t) ==
    [hz |-> hz,
     dt_target |-> UnitsPerSecond \div hz,
     seq |-> s,
     t_start |-> t,
     t_last |-> t,
     t_next |-> t + (UnitsPerSecond \div hz),
     total_drift |-> 0,
     max_jitter |-> 0]

\* lines 104-109: the time at which __next__ goes on after the optional
\* sleep, when called at t_now and the sleep overruns by late
WakeTime(tk, t_now, late) ==
    LET sleep_time == tk.t_next - t_now
    IN  IF sleep_time > 0 THEN tk.t_next + late ELSE t_now

\* a Ticker that measures drift against the deadline and pulls the next
\* deadline in by the drift it has collected
TickerNext_DriftCompensated(tk, t_now) ==
    [tk EXCEPT !.max_jitter = Max(tk.max_jitter, Abs(t_now - tk.t_next)),
               !.total_drift = tk.total_drift + (t_now - tk.t_next),
               !.t_last = t_now,
               !.t_next = tk.t_start + (tk.seq + 1) * tk.dt_target - tk.total_drift,
               !.seq = tk.seq + 1]

\* a Ticker that catches up: a late tick skips a sequence number
TickerNext_SkipWhenLate(tk, t_now) ==
    [tk EXCEPT !.max_jitter = Max(tk.max_jitter, Abs(t_now - tk.t_last - tk.dt_target)),
               !.total_drift = tk.total_drift + (t_now - tk.t_last - tk.dt_target),
               !.t_last = t_now,
               !.t_next = tk.t_start + (tk.seq + 1) * tk.dt_target,
               !.seq = tk.seq + 1 + (IF t_now > tk.t_next THEN 1 ELSE 0)]

\* a naive Ticker: the next deadline is one interval after the wake-up
TickerNext_FromWake(tk, t_now) ==
    [tk EXCEPT !.max_jitter = Max(tk.max_jitter, Abs(t_now - tk.t_last - tk.dt_target)),
               !.total_drift = tk.total_drift + (t_now - tk.t_last - tk.dt_target),
               !.t_last = t_now,
               !.t_next = t_now + tk.dt_target,
               !.seq = tk.seq + 1]

\* lines 112-127: the Ticker after a tick that woke at t_now
TickerNext(tk, t_now) ==
    LET dt_actual == t_now - tk.t_last
        jitter == Abs(dt_actual - tk.dt_target)
    IN  [tk EXCEPT !.max_jitter = Max(tk.max_jitter, jitter),
                   !.total_drift = tk.total_drift + (dt_actual - tk.dt_target),
                   !.t_last = t_now,
                   !.t_next = tk.t_start + (tk.seq + 1) * tk.dt_target,
                   !.seq = tk.seq + 1]

\* a Ticker that reports the target interval as the actual one
TickResult_NominalDt(tk, t_now) ==
    [seq |-> tk.seq, t_wall |-> t_now, dt |-> tk.dt_target,
     dt_actual |-> tk.dt_target]

\* line 138: the tuple (seq, t_wall, dt_target, dt_actual) of that tick
TickResult(tk, t_now) ==
    [seq |-> tk.seq, t_wall |-> t_now, dt |-> tk.dt_target,
     dt_actual |-> t_now - tk.t_last]

\* a reset that restarts the numbering but keeps the old schedule
TickerReset_KeepsDebt(tk, s, t) ==
    [tk EXCEPT !.seq = s,
               !.t_last = t,
               !.t_next = tk.t_start + tk.dt_target,
               !.total_drift = 0,
               !.max_jitter = 0]

\* Ticker.reset(start_seq) at clock reading t
TickerReset(tk, s, t) ==
    [tk EXCEPT !.seq = s,
               !.t_start = t,
               !.t_last = t,
               !.t_next = t + tk.dt_target,
               !.total_drift = 0,
               !.max_jitter = 0]

\* no tick returned yet
NoResult == [seq |-> -1, t_wall |-> -1, dt |-> 0, dt_actual |-> 0]

\* one whole tick() of Ticker id; a sleep, if there is one, overruns by late
TickStep(id, late) ==
    LET tk == ticker[id]
        t_wake == WakeTime(tk, now, late)
    IN  /\ late <= lateBudget
        /\ now' = t_wake
        /\ ticker' = [ticker EXCEPT ![id] = TickerNext(tk, t_wake)]
        /\ ret' = [ret EXCEPT ![id] = TickResult(tk, t_wake)]
        /\ nticks' = [nticks EXCEPT ![id] = @ + 1]
        /\ wasLate' = [wasLate EXCEPT ![id] = @ \/ (t_wake > tk.t_next)]
        /\ lateBudget' = lateBudget - (t_wake - Max(now, tk.t_next))
        /\ UNCHANGED <<start_seq, resets>>

----------------------------------------------------------------------------
(* Float arithmetic.  A control value is a binary floating-point number    *)
(* with a significand of SigBits bits, held as the integer count of        *)
(* 2^-FracBits it stands for; every operation rounds to nearest, ties to   *)
(* even, as IEEE 754 does for the 53-bit floats of the program.  NaN is    *)
(* the not-a-number value: it propagates through the arithmetic and every  *)
(* comparison with it is false.                                            *)

FracBits == 12
SigBits == 8

Scale == 2^FracBits

NaN == -(16 * Scale)

IsNaN(x) == x = NaN

\* the spacing of the floats around a number of magnitude a, searched
\* upwards from q
RECURSIVE QuantumFrom(_, _)
QuantumFrom(a, q) == IF a < q * 2^SigBits THEN q ELSE QuantumFrom(a, 2 * q)

\* the spacing of the floats around n
Quantum(n) == QuantumFrom(Abs(n), 1)

\* n rounded to the nearest multiple of q, ties to the even multiple
RoundTo(n, q) ==
    LET m == n \div q
        r == n % q
    IN  IF 2 * r < q THEN m * q
        ELSE IF 2 * r > q THEN (m + 1) * q
        ELSE IF m % 2 = 0 THEN m * q ELSE (m + 1) * q

\* the float nearest to n
Fl(n) == RoundTo(n, Quantum(n))

\* a + b
FAdd(a, b) == IF IsNaN(a) \/ IsNaN(b) THEN NaN ELSE Fl(a + b)

\* a - b
FSub(a, b) == IF IsNaN(a) \/ IsNaN(b) THEN NaN ELSE Fl(a - b)

\* a * b
FMul(a, b) ==
    IF IsNaN(a) \/ IsNaN(b) THEN NaN
    ELSE LET prod == a * b
         IN  RoundTo(prod, Max(Scale, Quantum(prod))) \div Scale

\* num / den for a float num and an integer den > 0; also the float a
\* decimal literal stands for
FRatio(num, den) ==
    IF IsNaN(num) THEN NaN
    ELSE LET guard == 2^SigBits
             quot == (num * guard) \div den
             sticky == 2 * quot + (IF (num * guard) % den = 0 THEN 0 ELSE 1)
         IN  RoundTo(sticky, Max(2 * guard, Quantum(sticky))) \div (2 * guard)

\* the literal num/100
Dec(num) == FRatio(num * Scale, 100)

\* a < b
FLt(a, b) == ~IsNaN(a) /\ ~IsNaN(b) /\ a < b

\* abs(a)
FAbs(a) == IF IsNaN(a) THEN NaN ELSE Abs(a)

\* the builtins min(a, b) and max(a, b): a unless b compares below / above it
PyMin(a, b) == IF FLt(b, a) THEN b ELSE a

PyMax(a, b) == IF FLt(a, b) THEN b ELSE a

----------------------------------------------------------------------------
(* ActionSmoother, action_smoother.py *)

Channels == {"steer", "throttle", "brake", "clutch"}

StatChannels == {"steer", "throttle", "brake"}

Neutral == [ch \in Channels |-> 0]

\* SmoothingConfig(...): rates and alphas given in hundredths
SmoothingConfig(rate, ema, steer_delta, throttle_up, throttle_down, brake_up, brake_down, steer_alpha, throttle_alpha, brake_alpha) ==
    [enable_rate_limiting |-> rate,
     enable_ema_smoothing |-> ema,
     up |-> [steer |-> Dec(steer_delta), throttle |-> Dec(throttle_up),
             brake |-> Dec(brake_up), clutch |-> Dec(50)],
     down |-> [steer |-> Dec(steer_delta), throttle |-> Dec(throttle_down),
               brake |-> Dec(brake_down), clutch |-> Dec(50)],
     alpha |-> [steer |-> Dec(steer_alpha), throttle |-> Dec(throttle_alpha),
                brake |-> Dec(brake_alpha), clutch |-> Dec(80)],
     lo |-> [steer |-> -Scale, throttle |-> 0, brake |-> 0, clutch |-> 0],
     hi |-> [steer |-> Scale, throttle |-> Scale, brake |-> Scale, clutch |-> Scale]]

\* get_conservative_config()
ConservativeConfig == SmoothingConfig(TRUE, TRUE, 10, 8, 20, 25, 8, 50, 60, 60)

\* get_moderate_config(), the default of ACBridgeLocal
ModerateConfig == SmoothingConfig(TRUE, TRUE, 15, 10, 25, 30, 10, 60, 70, 70)

\* get_aggressive_config()
AggressiveConfig == SmoothingConfig(TRUE, TRUE, 20, 15, 30, 40, 15, 70, 80, 80)

\* get_no_smoothing_config()
NoSmoothingConfig == SmoothingConfig(FALSE, FALSE, 15, 10, 25, 30, 10, 60, 70, 70)

\* SmoothingConfig(enable_ema_smoothing=False): the rate limiter alone
RateOnlyConfig == SmoothingConfig(TRUE, FALSE, 15, 10, 25, 30, 10, 60, 70, 70)

Presets == {ConservativeConfig, ModerateConfig, AggressiveConfig, NoSmoothingConfig}

Configs == Presets \cup {RateOnlyConfig}

\* np.clip
Clip(x, lo, hi) == IF IsNaN(x) THEN NaN ELSE Max(lo, Min(x, hi))

\* ActionSmoother._apply_rate_limit
ApplyRateLimit(target, prev, max_up_rate, max_down_rate) ==
    LET delta == FSub(target, prev)
    IN  IF FLt(0, delta) THEN FAdd(prev, PyMin(delta, max_up_rate))
        ELSE FAdd(prev, PyMax(delta, -max_down_rate))

\* ActionSmoother._apply_ema
ApplyEma(target, prev, alpha) ==
    FAdd(FMul(alpha, target), FMul(FSub(Scale, alpha), prev))

\* one channel of ActionSmoother.smooth, lines 113-157
SmoothChannel(cfg, ch, target, prev) ==
    LET clamped == Clip(target, cfg.lo[ch], cfg.hi[ch])
        limited == IF cfg.enable_rate_limiting
                   THEN ApplyRateLimit(clamped, prev, cfg.up[ch], cfg.down[ch])
                   ELSE clamped
        smoothed == IF cfg.enable_ema_smoothing
                    THEN ApplyEma(limited, prev, cfg.alpha[ch])
                    ELSE limited
    IN  Clip(smoothed, cfg.lo[ch], cfg.hi[ch])

\* ActionSmoother.__init__
SmootherNew(cfg) ==
    [config |-> cfg,
     prev |-> Neutral,
     step_count |-> 0,
     total |-> [ch \in StatChannels |-> 0]]

\* ActionSmoother.smooth: the state after smoothing target a; the values
\* returned are the new prev
Smooth(sm, a) ==
    LET out == [ch \in Channels |-> SmoothChannel(sm.config, ch, a[ch], sm.prev[ch])]
    IN  [sm EXCEPT !.prev = out,
                   !.step_count = @ + 1,
                   !.total = [ch \in StatChannels |->
                                 FAdd(sm.total[ch], FAbs(FSub(out[ch], sm.prev[ch])))]]

\* ActionSmoother.reset
SmootherReset(sm) == [sm EXCEPT !.prev = Neutral]

\* ActionSmoother.get_stats
GetStats(sm) ==
    IF sm.step_count = 0
    THEN [step_count |-> 0]
    ELSE [step_count |-> sm.step_count,
          avg |-> [ch \in StatChannels |-> FRatio(sm.total[ch], sm.step_count)]]

----------------------------------------------------------------------------
(* VJoyController, control/vjoy_controller.py: the axis values the device *)
(* holds.                                                                  *)

AxisMin == 1
AxisMax == 32768
AxisCenter == 16384

\* VJoyController._float_to_axis; the scaling to the axis range is exact
FloatToAxis(value, center_zero) ==
    IF center_zero
    THEN LET v == PyMax(-Scale, PyMin(Scale, value))
         IN  AxisMin + ((v + Scale) * (AxisMax - AxisMin)) \div (2 * Scale)
    ELSE LET v == PyMax(0, PyMin(Scale, value))
         IN  AxisMin + (v * (AxisMax - AxisMin)) \div Scale

\* the axis distance _float_to_axis gives a change of size delta on channel
\* ch, rounded up
AxisDistance(ch, delta) ==
    IF ch = "steer"
    THEN (delta * (AxisMax - AxisMin)) \div (2 * Scale) + 1
    ELSE (delta * (AxisMax - AxisMin)) \div Scale + 1

\* VJoyController.reset
AxisNeutral ==
    [ch \in Channels |-> IF ch = "steer" THEN AxisCenter ELSE AxisMin]

\* the axes whose device call fails twice in one set_controls
FailSets == {{}, Channels}

\* _safe_set_axis, lines 105-132: the device.set_axis calls made for one
\* axis, the second being the retry after a vJoyException
SetAxisCalls(raises) == IF raises THEN 2 ELSE 1

\* set_controls: the axes among fails that the call moves, which it
\* therefore sends to the device (the cached value differs, line 294) and
\* whose set_axis raises
Raised(device, values, fails) ==
    {ch \in fails : FloatToAxis(values[ch], ch = "steer") # device[ch]}

\* VJoyController.set_controls: the device after the call, when
\* _safe_set_axis returns False for the axes in fails
SetControls(device, values, fails) ==
    [ch \in Channels |->
        IF ch \in fails THEN device[ch]
        ELSE FloatToAxis(values[ch], ch = "steer")]

----------------------------------------------------------------------------
(* ACBridgeLocal, client.py *)

MaxOps == 5         \* connects, closes, resets, steps, delays and poller ticks
MaxPollers == 2     \* poller threads ever started

ConnectTimeout == 5 * UnitsPerSecond    \* connect(): timeout = 5.0
JoinTimeout == 2 * UnitsPerSecond       \* close(): join(timeout=2.0)
ResetWait == 5 * UnitsPerSecond         \* reset(): wait_time = 5.0

PollerIds == 1..MaxPollers

Readers == {"consumer"}

\* _latest_frame is None.  A frame carries, next to its numbers, the
\* writes that reached the cached frame object from outside the poller
\* (edits): metadata merged by a step, or a consumer's change to the
\* observation array, to the keys of the info dict or to its list values.
NoFrame == [seq |-> -1, pub |-> 0, edits |-> {}]

\* the (obs, info) a read returns, or the RuntimeError it raises; shared
\* names the parts of the returned pair that are the cached frame's own
\* objects
NoObs == [kind |-> "none", frame |-> NoFrame, shared |-> {}]

\* the zero-valued observation a read could hand out instead of failing
LatestObs_Default(frame) ==
    [kind |-> "ok",
     frame |-> IF frame = NoFrame THEN [seq |-> 0, pub |-> 0, edits |-> {}] ELSE frame,
     shared |-> {"lists"}]

\* latest_obs(), lines 181-187, on the slot's content: obs.copy() is a new
\* array and info.copy() a new dict holding the same list objects
LatestObs(frame) ==
    IF frame = NoFrame
    THEN [kind |-> "RuntimeError", frame |-> NoFrame, shared |-> {}]
    ELSE [kind |-> "ok", frame |-> frame, shared |-> {"lists"}]

\* info.update(...) of step() and reset() on the info a read returned: the
\* keys land in the cached frame when that dict is the frame's own
MergeMeta(frame, got) ==
    IF got.kind = "ok" /\ "info" \in got.shared
    THEN [frame EXCEPT !.edits = @ \cup {"step_meta"}]
    ELSE frame

\* is_connected(), line 164
IsConnected == connected /\ latest_frame # NoFrame

\* threading.Thread.is_alive()
IsAlive(p) == poller[p].pc \notin {"unborn", "dead"}

NoStepRet ==
    [op |-> "none", kind |-> "none", frame |-> NoFrame, trace |-> <<>>,
     step_seq |-> -1, step_count |-> -1, hold |-> 0, prompt |-> FALSE,
     applyPub |-> 0]

NoArgs ==
    [t0 |-> 0, applyTime |-> 0, applyPub |-> 0, prompt |-> FALSE,
     warned |-> {}, raised |-> {}, calls |-> 0]

\* smoothing_config=None, the default argument of ACBridgeLocal
NoConfig == [none |-> TRUE]

\* ACBridgeLocal.action_smoother is None
NoSmoother ==
    [config |-> NoConfig,
     prev |-> Neutral,
     step_count |-> 0,
     total |-> [ch \in StatChannels |-> 0]]

\* ACBridgeLocal.__init__, lines 85-87: the smoother the bridge is given
BridgeSmoother(smoothing_config) ==
    LET config == IF smoothing_config = NoConfig THEN ModerateConfig
                  ELSE smoothing_config
    IN  IF config # NoConfig THEN SmootherNew(config) ELSE NoSmoother

\* apply_action(), lines 216-220: the smoother after the call
ApplySmoother(sm, values) ==
    IF sm # NoSmoother THEN Smooth(sm, values) ELSE sm

\* apply_action(), lines 216-228: the values passed to set_controls
ApplyValues(sm, values) ==
    IF sm # NoSmoother THEN Smooth(sm, values).prev ELSE values

\* get_smoother_stats(): the empty dict when there is no smoother
GetSmootherStats(sm) ==
    IF sm = NoSmoother THEN [k \in {} |-> 0] ELSE GetStats(sm)

\* ACBridgeLocal.__init__ and RealTimeStepper.__init__, lines 65-69
InitBridge ==
    /\ running = FALSE
    /\ connected = FALSE
    /\ latest_frame = NoFrame
    /\ telemetry_thread = 0
    /\ poller = [p \in PollerIds |-> [pc |-> "unborn", seq |-> -1, fails |-> 0,
                                     holds |-> FALSE]]
    /\ src = TRUE
    /\ pubCount = 0
    /\ budget = MaxOps
    /\ cpc = "idle"
    /\ cargs = NoArgs
    /\ step_count = 0
    /\ last_action = <<>>
    /\ smoother = SmootherNew(ModerateConfig)
    /\ actuator = AxisNeutral
    /\ stepTrace = <<>>
    /\ stepRet = NoStepRet
    /\ reader = [c \in Readers |-> [pc |-> "idle", floor |-> -1, got |-> NoObs,
                                   edited |-> {}, holds |-> FALSE]]

\* connect()
Connect ==
    /\ cpc = "idle"
    /\ IF running
       THEN UNCHANGED <<running, telemetry_thread, poller, connected, cpc, cargs,
                        budget>>
       ELSE \E p \in PollerIds :
               /\ budget > 0
               /\ budget' = budget - 1
               /\ poller[p].pc = "unborn"
               /\ \A q \in PollerIds : q < p => poller[q].pc # "unborn"
               /\ running' = TRUE
               /\ telemetry_thread' = p
               /\ poller' = [poller EXCEPT ![p].pc = "tick"]
               /\ connected' = TRUE
               /\ cpc' = "connect_wait"
               /\ cargs' = [cargs EXCEPT !.t0 = now]
    /\ UNCHANGED <<tvars, latest_frame, src, pubCount, step_count,
                   last_action, smoother, actuator, stepTrace, stepRet, reader>>

\* connect(), lines 129-138: the wait for the first frame ends
ConnectDone ==
    /\ cpc = "connect_wait"
    /\ now' = IF latest_frame = NoFrame THEN Max(now, cargs.t0 + ConnectTimeout)
              ELSE now
    /\ cpc' = "idle"
    /\ UNCHANGED <<ticker, start_seq, nticks, ret, wasLate, resets, lateBudget,
                   bvars, budget, cargs, step_count, last_action, smoother,
                   actuator, stepTrace, stepRet, reader>>

\* a close() that also empties the cache slot
Close_DropsFrame ==
    /\ cpc = "idle"
    /\ budget > 0
    /\ budget' = budget - 1
    /\ running' = FALSE
    /\ connected' = FALSE
    /\ latest_frame' = NoFrame
    /\ IF telemetry_thread # 0 /\ IsAlive(telemetry_thread)
       THEN /\ cpc' = "close_join"
            /\ cargs' = [cargs EXCEPT !.t0 = now]
            /\ UNCHANGED actuator
       ELSE /\ actuator' = AxisNeutral
            /\ UNCHANGED <<cpc, cargs>>
    /\ UNCHANGED <<tvars, telemetry_thread, poller, src, pubCount,
                   step_count, last_action, smoother, stepTrace, stepRet, reader>>

\* close(), lines 148-151; lines 154-158 when there is no thread to join
Close ==
    /\ cpc = "idle"
    /\ budget > 0
    /\ budget' = budget - 1
    /\ running' = FALSE
    /\ connected' = FALSE
    /\ IF telemetry_thread # 0 /\ IsAlive(telemetry_thread)
       THEN /\ cpc' = "close_join"
            /\ cargs' = [cargs EXCEPT !.t0 = now]
            /\ UNCHANGED actuator
       ELSE /\ actuator' = AxisNeutral
            /\ UNCHANGED <<cpc, cargs>>
    /\ UNCHANGED <<tvars, latest_frame, telemetry_thread, poller, src, pubCount,
                   step_count, last_action, smoother, stepTrace, stepRet, reader>>

\* close(), line 152 on: the joined thread has exited
CloseJoined ==
    /\ cpc = "close_join"
    /\ ~IsAlive(telemetry_thread)
    /\ actuator' = AxisNeutral
    /\ cpc' = "idle"
    /\ UNCHANGED <<tvars, bvars, budget, cargs, step_count, last_action,
                   smoother, stepTrace, stepRet, reader>>

\* close(), line 152 on: join(timeout=2.0) gives up on a poller that is
\* still inside a call of the telemetry source
CloseTimeout ==
    /\ cpc = "close_join"
    /\ poller[telemetry_thread].pc = "read"
    /\ now' = Max(now, cargs.t0 + JoinTimeout)
    /\ actuator' = AxisNeutral
    /\ cpc' = "idle"
    /\ UNCHANGED <<ticker, start_seq, nticks, ret, wasLate, resets, lateBudget,
                   bvars, budget, cargs, step_count, last_action, smoother,
                   stepTrace, stepRet, reader>>

\* _poll_telemetry_loop, lines 297-299: the next tick of telemetry_ticker
\* and the check of _running
PollTick(p) ==
    /\ poller[p].pc = "tick"
    /\ running => budget > 0
    /\ budget' = IF running THEN budget - 1 ELSE budget
    /\ TickStep("telemetry", 0)
    /\ poller' = [poller EXCEPT ![p].pc = IF running THEN "read" ELSE "dead",
                                ![p].seq = ticker["telemetry"].seq]
    /\ UNCHANGED <<running, connected, latest_frame, telemetry_thread, src,
                   pubCount, svars, reader>>

\* a poller that gives up when the source is not connected
PollSkip_Dies(p) ==
    /\ poller[p].pc = "read"
    /\ ~src
    /\ now' = now + ticker["telemetry"].dt_target \div 2
    /\ poller' = [poller EXCEPT ![p].pc = "dead"]
    /\ UNCHANGED <<ticker, start_seq, nticks, ret, wasLate, resets, lateBudget,
                   running, connected, latest_frame, telemetry_thread, src,
                   pubCount, budget, svars, reader>>

\* lines 302-305: the source is not connected, back off for dt / 2
PollSkip(p) ==
    /\ poller[p].pc = "read"
    /\ ~src
    /\ now' = now + ticker["telemetry"].dt_target \div 2
    /\ poller' = [poller EXCEPT ![p].pc = "tick"]
    /\ UNCHANGED <<ticker, start_seq, nticks, ret, wasLate, resets, lateBudget,
                   running, connected, latest_frame, telemetry_thread, src,
                   pubCount, budget, svars, reader>>

\* lines 308-331: read, stamp with the tick's seq, publish
PollPublish(p) ==
    /\ poller[p].pc = "read"
    /\ src
    /\ latest_frame' = [seq |-> poller[p].seq, pub |-> pubCount + 1, edits |-> {}]
    /\ pubCount' = pubCount + 1
    /\ poller' = [poller EXCEPT ![p].pc = "tick"]
    /\ UNCHANGED <<tvars, running, connected, telemetry_thread, src, budget,
                   svars, reader>>

\* a poller that empties the cache slot when a read fails
PollReadError_ClearsFrame(p) ==
    /\ poller[p].pc = "read"
    /\ src
    /\ poller' = [poller EXCEPT ![p].pc = "tick", ![p].fails = @ + 1]
    /\ latest_frame' = NoFrame
    /\ UNCHANGED <<tvars, running, connected, telemetry_thread,
                   src, pubCount, budget, svars, reader>>

\* the poller thread as it would end without the inner try of line 308: the
\* exception leaves the loop
PollReadError_Dies(p) ==
    /\ poller[p].pc = "read"
    /\ src
    /\ poller' = [poller EXCEPT ![p].pc = "dead", ![p].fails = @ + 1]
    /\ UNCHANGED <<tvars, running, connected, latest_frame, telemetry_thread,
                   src, pubCount, budget, svars, reader>>

\* lines 308-334: _read_and_process_telemetry raises, the error is logged
PollReadError(p) ==
    /\ poller[p].pc = "read"
    /\ src
    /\ poller' = [poller EXCEPT ![p].pc = "tick", ![p].fails = @ + 1]
    /\ UNCHANGED <<tvars, running, connected, latest_frame, telemetry_thread,
                   src, pubCount, budget, svars, reader>>

\* the simulator starts or stops: telemetry_reader.is_connected() changes
SourceToggle ==
    /\ src' = ~src
    /\ UNCHANGED <<tvars, running, connected, latest_frame, telemetry_thread,
                   poller, pubCount, budget, svars, reader>>

\* latest_obs() by a consumer thread: the call begins
ReadBegin(c) ==
    /\ reader[c].pc = "idle"
    /\ reader' = [reader EXCEPT ![c].pc = "reading",
                                ![c].floor = latest_frame.seq,
                                ![c].got = NoObs,
                                ![c].edited = {}]
    /\ UNCHANGED <<tvars, bvars, budget, svars>>

\* latest_obs() by a consumer thread, lines 181-187 under _frame_lock
ReadEnd(c) ==
    /\ reader[c].pc = "reading"
    /\ reader' = [reader EXCEPT ![c].pc = "idle",
                                ![c].got = LatestObs(latest_frame)]
    /\ UNCHANGED <<tvars, bvars, budget, svars>>

\* _frame_lock, a threading.Lock: the threads inside a with-block of it
Holders ==
    {<<"poller", p>> : p \in {q \in PollerIds : poller[q].holds}}
       \cup {<<"reader", c>> : c \in {d \in Readers : reader[d].holds}}

\* lines 308-327: the call of the telemetry source returns and the frame is
\* built, stamped with the tick's seq
PollRead(p) ==
    /\ poller[p].pc = "read"
    /\ src
    /\ poller' = [poller EXCEPT ![p].pc = "publish"]
    /\ UNCHANGED <<tvars, running, connected, latest_frame, telemetry_thread,
                   src, pubCount, budget, svars, reader>>

\* a poller that takes the lock before it calls the telemetry source
PollAcquire_BeforeRead(p) ==
    /\ poller[p].pc = "read"
    /\ ~poller[p].holds
    /\ Holders = {}
    /\ poller' = [poller EXCEPT ![p].holds = TRUE]
    /\ UNCHANGED <<tvars, running, connected, latest_frame, telemetry_thread,
                   src, pubCount, budget, svars, reader>>

\* line 330: the poller enters the with-block once the lock is free
PollAcquire(p) ==
    /\ poller[p].pc = "publish"
    /\ ~poller[p].holds
    /\ Holders = {}
    /\ poller' = [poller EXCEPT ![p].holds = TRUE]
    /\ UNCHANGED <<tvars, running, connected, latest_frame, telemetry_thread,
                   src, pubCount, budget, svars, reader>>

\* line 331: the slot assignment, and the lock is released
PollAssign(p) ==
    /\ poller[p].pc = "publish"
    /\ poller[p].holds
    /\ latest_frame' = [seq |-> poller[p].seq, pub |-> pubCount + 1, edits |-> {}]
    /\ pubCount' = pubCount + 1
    /\ poller' = [poller EXCEPT ![p].pc = "tick", ![p].holds = FALSE]
    /\ UNCHANGED <<tvars, running, connected, telemetry_thread, src, budget,
                   svars, reader>>

\* latest_obs(), line 181: the consumer enters the with-block once the lock
\* is free
ReadAcquire(c) ==
    /\ reader[c].pc = "reading"
    /\ ~reader[c].holds
    /\ Holders = {}
    /\ reader' = [reader EXCEPT ![c].holds = TRUE]
    /\ UNCHANGED <<tvars, bvars, budget, svars>>

\* latest_obs(), lines 182-187: the check and the copy, and the lock is
\* released
ReadCopy(c) ==
    /\ reader[c].pc = "reading"
    /\ reader[c].holds
    /\ reader' = [reader EXCEPT ![c].pc = "idle",
                                ![c].holds = FALSE,
                                ![c].got = LatestObs(latest_frame)]
    /\ UNCHANGED <<tvars, bvars, budget, svars>>

\* the parts of a returned (obs, info) a consumer can change in place
Parts == {"obs", "info", "lists"}

\* a consumer changes part of the observation it was handed: the change
\* reaches the cached frame when that part is the frame's own object and
\* the frame is still the one in the slot
ReaderEdit(c, part) ==
    /\ reader[c].pc = "idle"
    /\ reader[c].got.kind = "ok"
    /\ part \notin reader[c].edited
    /\ reader' = [reader EXCEPT ![c].edited = @ \cup {part}]
    /\ latest_frame' =
          IF part \in reader[c].got.shared /\ latest_frame.pub = reader[c].got.frame.pub
          THEN [latest_frame EXCEPT !.edits = @ \cup {part}]
          ELSE latest_frame
    /\ UNCHANGED <<tvars, running, connected, telemetry_thread, poller, src,
                   pubCount, budget, svars>>

----------------------------------------------------------------------------
(* RealTimeStepper, stepper.py.  An action is a tuple of 2 to 4 values.    *)

StepActions ==
    { <<Scale, 0, 0>>,
      <<-2 * Scale, 2 * Scale, Scale \div 2, 2 * Scale>>,
      <<0, 0>> }

\* float <=
FLe(a, b) == ~IsNaN(a) /\ ~IsNaN(b) /\ a <= b

\* step(), lines 106-109: the four values of the action as given
RawAction(a) ==
    [steer |-> a[1], throttle |-> a[2], brake |-> a[3],
     clutch |-> IF Len(a) > 3 THEN a[4] ELSE 0]

\* step(), lines 112-120: the channels logged as action_out_of_range
Warned(a) ==
    {ch \in {"steer", "throttle", "brake"} :
        ~(FLe(IF ch = "steer" THEN -Scale ELSE 0, RawAction(a)[ch])
          /\ FLe(RawAction(a)[ch], Scale))}

\* step(), lines 106-120: parse the action and clip steer, throttle, brake
ParseAction(a) ==
    [steer |-> Clip(a[1], -Scale, Scale),
     throttle |-> Clip(a[2], 0, Scale),
     brake |-> Clip(a[3], 0, Scale),
     clutch |-> IF Len(a) > 3 THEN a[4] ELSE 0]

\* a step() that records the action before it checks its length
StepApply_RecordsShort(a, fails) ==
    /\ cpc = "idle"
    /\ IF Len(a) < 3
       THEN /\ stepRet' = [NoStepRet EXCEPT !.op = "step", !.kind = "ValueError"]
            /\ last_action' = a
            /\ UNCHANGED <<cpc, cargs, smoother, actuator, stepTrace, budget>>
       ELSE /\ budget > 0
            /\ budget' = budget - 1
            /\ smoother' = ApplySmoother(smoother, ParseAction(a))
            /\ actuator' = SetControls(actuator, ApplyValues(smoother, ParseAction(a)),
                                       fails)
            /\ last_action' = a
            /\ stepTrace' = <<"actuator">>
            /\ cargs' = [cargs EXCEPT
                  !.applyTime = now,
                  !.applyPub = pubCount,
                  !.prompt = (now = ticker["control"].t_last),
                  !.warned = Warned(a),
                  !.raised = Raised(actuator, ApplyValues(smoother, ParseAction(a)),
                                    fails),
                  !.calls = SetAxisCalls(
                      Raised(actuator, ApplyValues(smoother, ParseAction(a)), fails)
                         # {})]
            /\ cpc' = "step_tick"
            /\ stepRet' = NoStepRet
    /\ UNCHANGED <<tvars, bvars, step_count, reader>>

\* step(action), lines 103-124: validate, smooth, write to the actuator;
\* the device calls of the axes in fails fail
StepApply(a, fails) ==
    /\ cpc = "idle"
    /\ IF Len(a) < 3
       THEN /\ stepRet' = [NoStepRet EXCEPT !.op = "step", !.kind = "ValueError"]
            /\ UNCHANGED <<cpc, cargs, last_action, smoother, actuator, stepTrace,
                           budget>>
       ELSE /\ budget > 0
            /\ budget' = budget - 1
            /\ smoother' = ApplySmoother(smoother, ParseAction(a))
            /\ actuator' = SetControls(actuator, ApplyValues(smoother, ParseAction(a)),
                                       fails)
            /\ last_action' = a
            /\ stepTrace' = <<"actuator">>
            /\ cargs' = [cargs EXCEPT
                  !.applyTime = now,
                  !.applyPub = pubCount,
                  !.prompt = (now = ticker["control"].t_last),
                  !.warned = Warned(a),
                  !.raised = Raised(actuator, ApplyValues(smoother, ParseAction(a)),
                                    fails),
                  !.calls = SetAxisCalls(
                      Raised(actuator, ApplyValues(smoother, ParseAction(a)), fails)
                         # {})]
            /\ cpc' = "step_tick"
            /\ stepRet' = NoStepRet
    /\ UNCHANGED <<tvars, bvars, step_count, reader>>

\* step(), line 127: the control tick
StepTick ==
    /\ cpc = "step_tick"
    /\ TickStep("control", 0)
    /\ stepTrace' = Append(stepTrace, "tick")
    /\ cargs' = [cargs EXCEPT !.prompt = @ /\ now <= ticker["control"].t_next]
    /\ cpc' = "step_read"
    /\ UNCHANGED <<bvars, budget, step_count, last_action, smoother, actuator,
                   stepRet, reader>>

\* a step() that writes the controls once more after the tick
StepRead_Reapply ==
    LET got == LatestObs(latest_frame)
    IN  /\ cpc = "step_read"
        /\ stepTrace' = Append(Append(stepTrace, "actuator"), "read")
        /\ stepRet' = [op |-> "step",
                       kind |-> got.kind,
                       frame |-> got.frame,
                       trace |-> stepTrace',
                       step_seq |-> ret["control"].seq,
                       step_count |-> step_count,
                       hold |-> now - cargs.applyTime,
                       prompt |-> cargs.prompt /\ now = ret["control"].t_wall,
                       applyPub |-> cargs.applyPub]
        /\ latest_frame' = MergeMeta(latest_frame, got)
        /\ step_count' = IF got.kind = "ok" THEN step_count + 1 ELSE step_count
        /\ cpc' = "idle"
        /\ UNCHANGED <<tvars, running, connected, telemetry_thread, poller, src,
                       pubCount, budget, cargs, last_action, smoother, actuator,
                       reader>>

\* step(), lines 130-148: sample the cache, merge the metadata, count
StepRead ==
    LET got == LatestObs(latest_frame)
    IN  /\ cpc = "step_read"
        /\ stepTrace' = Append(stepTrace, "read")
        /\ stepRet' = [op |-> "step",
                       kind |-> got.kind,
                       frame |-> got.frame,
                       trace |-> stepTrace',
                       step_seq |-> ret["control"].seq,
                       step_count |-> step_count,
                       hold |-> now - cargs.applyTime,
                       prompt |-> cargs.prompt /\ now = ret["control"].t_wall,
                       applyPub |-> cargs.applyPub]
        /\ latest_frame' = MergeMeta(latest_frame, got)
        /\ step_count' = IF got.kind = "ok" THEN step_count + 1 ELSE step_count
        /\ cpc' = "idle"
        /\ UNCHANGED <<tvars, running, connected, telemetry_thread, poller, src,
                       pubCount, budget, cargs, last_action, smoother, actuator,
                       reader>>

\* stepper reset(), line 162, into bridge reset(), lines 242-246: the
\* restart button is pressed and the waits begin
ResetBegin ==
    /\ cpc = "idle"
    /\ budget > 0
    /\ budget' = budget - 1
    /\ cpc' = "reset_wait"
    /\ cargs' = [cargs EXCEPT !.t0 = now, !.applyPub = pubCount]
    /\ stepRet' = NoStepRet
    /\ UNCHANGED <<tvars, bvars, step_count, last_action, smoother, actuator,
                   stepTrace, reader>>

\* a reset that leaves the smoother's previous outputs as they are
ResetEnd_KeepsSmoother ==
    /\ cpc = "reset_wait"
    /\ now' = Max(now, cargs.t0 + ResetWait)
    /\ actuator' = AxisNeutral
    /\ smoother' = smoother
    /\ ticker' = [id \in TickerIds |-> TickerReset(ticker[id], 0, now')]
    /\ start_seq' = [id \in TickerIds |-> 0]
    /\ nticks' = [id \in TickerIds |-> 0]
    /\ ret' = [id \in TickerIds |-> NoResult]
    /\ wasLate' = [id \in TickerIds |-> FALSE]
    /\ resets' = resets + 1
    /\ step_count' = 0
    /\ last_action' = <<>>
    /\ stepTrace' = <<>>
    /\ cpc' = "reset_read"
    /\ UNCHANGED <<lateBudget, bvars, budget, cargs, stepRet, reader>>

\* bridge reset(), lines 250-273, and stepper reset(), lines 165-167: the
\* waits are over, controls to neutral, smoother and both Tickers reset
ResetEnd ==
    /\ cpc = "reset_wait"
    /\ now' = Max(now, cargs.t0 + ResetWait)
    /\ actuator' = AxisNeutral
    /\ smoother' = SmootherReset(smoother)
    /\ ticker' = [id \in TickerIds |-> TickerReset(ticker[id], 0, now')]
    /\ start_seq' = [id \in TickerIds |-> 0]
    /\ nticks' = [id \in TickerIds |-> 0]
    /\ ret' = [id \in TickerIds |-> NoResult]
    /\ wasLate' = [id \in TickerIds |-> FALSE]
    /\ resets' = resets + 1
    /\ step_count' = 0
    /\ last_action' = <<>>
    /\ stepTrace' = <<>>
    /\ cpc' = "reset_read"
    /\ UNCHANGED <<lateBudget, bvars, budget, cargs, stepRet, reader>>

\* stepper reset(), lines 170-179: the initial observation
ResetRead ==
    LET got == LatestObs(latest_frame)
    IN  /\ cpc = "reset_read"
        /\ stepRet' = [NoStepRet EXCEPT !.op = "reset",
                                        !.kind = got.kind,
                                        !.frame = got.frame,
                                        !.step_seq = 0,
                                        !.step_count = 0,
                                        !.applyPub = cargs.applyPub]
        /\ latest_frame' = MergeMeta(latest_frame, got)
        /\ cpc' = "idle"
        /\ UNCHANGED <<tvars, running, connected, telemetry_thread, poller, src,
                       pubCount, budget, cargs, step_count, last_action, smoother,
                       actuator, stepTrace, reader>>

\* the caller's thread spends one clock unit between two calls
CallerDelay ==
    /\ cpc = "idle"
    /\ lateBudget > 0
    /\ budget > 0
    /\ budget' = budget - 1
    /\ now' = now + 1
    /\ lateBudget' = lateBudget - 1
    /\ UNCHANGED <<ticker, start_seq, nticks, ret, wasLate, resets,
                   bvars, svars, reader>>

\* the bridge and the stepper constructed at the same clock reading
Init ==
    /\ now = 0
    /\ ticker = [id \in TickerIds |->
                    TickerNew(IF id = "control" THEN ControlHz ELSE TelemetryHz, 0, 0)]
    /\ start_seq = [id \in TickerIds |-> 0]
    /\ nticks = [id \in TickerIds |-> 0]
    /\ ret = [id \in TickerIds |-> NoResult]
    /\ wasLate = [id \in TickerIds |-> FALSE]
    /\ resets = 0
    /\ lateBudget = MaxLate
    /\ InitBridge

\* the bridge: the caller connects, closes and resets while the pollers
\* poll and a consumer thread reads
Next ==
    \/ Connect
    \/ ConnectDone
    \/ Close
    \/ CloseJoined
    \/ CloseTimeout
    \/ \E p \in PollerIds : PollTick(p)
    \/ \E p \in PollerIds : PollSkip(p)
    \/ \E p \in PollerIds : PollPublish(p)
    \/ \E p \in PollerIds : PollReadError(p)
    \/ SourceToggle
    \/ \E c \in Readers : ReadBegin(c)
    \/ \E c \in Readers : ReadEnd(c)
    \/ ResetBegin
    \/ ResetEnd
    \/ ResetRead

Spec == Init /\ [][Next]_vars

\* the scheduler runs every poller thread, and every call of the telemetry
\* source returns
PollerFairness ==
    \A p \in PollerIds :
       /\ WF_vars(PollTick(p))
       /\ WF_vars(PollSkip(p) \/ PollPublish(p) \/ PollReadError(p))

SpecFair == Init /\ [][Next]_vars /\ PollerFairness

\* the training loop on a healthy device: the caller connects, steps and
\* resets while the poller polls and a consumer thread reads
NextStepper ==
    \/ Connect
    \/ ConnectDone
    \/ \E p \in PollerIds : PollTick(p)
    \/ \E p \in PollerIds : PollPublish(p)
    \/ \E c \in Readers : ReadBegin(c)
    \/ \E c \in Readers : ReadEnd(c)
    \/ \E a \in StepActions : StepApply(a, {})
    \/ StepTick
    \/ StepRead
    \/ ResetBegin
    \/ ResetEnd
    \/ ResetRead
    \/ CallerDelay

SpecStepper == Init /\ [][NextStepper]_vars

\* the training loop on a device whose calls can fail: the caller steps and
\* resets, and in some steps every set_axis call raises twice
NextApply ==
    \/ \E a \in StepActions : \E fails \in FailSets : StepApply(a, fails)
    \/ StepTick
    \/ StepRead
    \/ ResetBegin
    \/ ResetEnd
    \/ ResetRead

SpecApply == Init /\ [][NextApply]_vars

\* bridges constructed with each smoothing_config argument, stepped on a
\* healthy device
ConfigArgs == Presets \cup {NoConfig}

InitConfig ==
    /\ now = 0
    /\ ticker = [id \in TickerIds |->
                    TickerNew(IF id = "control" THEN ControlHz ELSE TelemetryHz, 0, 0)]
    /\ start_seq = [id \in TickerIds |-> 0]
    /\ nticks = [id \in TickerIds |-> 0]
    /\ ret = [id \in TickerIds |-> NoResult]
    /\ wasLate = [id \in TickerIds |-> FALSE]
    /\ resets = 0
    /\ lateBudget = 0
    /\ running = FALSE
    /\ connected = FALSE
    /\ latest_frame = NoFrame
    /\ telemetry_thread = 0
    /\ poller = [p \in PollerIds |-> [pc |-> "unborn", seq |-> -1, fails |-> 0,
                                     holds |-> FALSE]]
    /\ src = TRUE
    /\ pubCount = 0
    /\ budget = MaxOps
    /\ cpc = "idle"
    /\ step_count = 0
    /\ last_action = <<>>
    /\ \E arg \in ConfigArgs :
          /\ cargs = [t0 |-> 0, applyTime |-> 0, applyPub |-> 0, prompt |-> FALSE,
                      warned |-> {}, raised |-> {}, calls |-> 0,
                      smoothing_config |-> arg]
          /\ smoother = BridgeSmoother(arg)
    /\ actuator = AxisNeutral
    /\ stepTrace = <<>>
    /\ stepRet = NoStepRet
    /\ reader = [c \in Readers |-> [pc |-> "idle", floor |-> -1, got |-> NoObs,
                                   edited |-> {}, holds |-> FALSE]]

NextConfig ==
    \/ \E a \in StepActions : StepApply(a, {})
    \/ StepTick
    \/ StepRead

SpecConfig == InitConfig /\ [][NextConfig]_vars

\* the bridge with the steps of _frame_lock: the caller connects and closes
\* while the pollers poll and a consumer thread reads
NextLock ==
    \/ Connect
    \/ ConnectDone
    \/ Close
    \/ CloseJoined
    \/ CloseTimeout
    \/ \E p \in PollerIds : PollTick(p)
    \/ \E p \in PollerIds : PollSkip(p)
    \/ \E p \in PollerIds : PollRead(p)
    \/ \E p \in PollerIds : PollAcquire(p)
    \/ \E p \in PollerIds : PollAssign(p)
    \/ \E p \in PollerIds : PollReadError(p)
    \/ SourceToggle
    \/ \E c \in Readers : ReadBegin(c)
    \/ \E c \in Readers : ReadAcquire(c)
    \/ \E c \in Readers : ReadCopy(c)

\* a thread inside a with-block runs on to its end, and a thread waiting
\* for the lock gets it when it is free again and again; nothing is assumed
\* of the telemetry source, whose call may never return
LockFairness ==
    /\ \A p \in PollerIds : WF_vars(PollAssign(p))
    /\ \A c \in Readers : WF_vars(ReadCopy(c)) /\ SF_vars(ReadAcquire(c))

SpecLock == Init /\ [][NextLock]_vars /\ LockFairness

\* consumers of observations: the caller connects and steps, the poller
\* publishes, and a consumer thread reads and changes what it was handed
NextCopy ==
    \/ Connect
    \/ ConnectDone
    \/ \E p \in PollerIds : PollTick(p)
    \/ \E p \in PollerIds : PollPublish(p)
    \/ \E c \in Readers : ReadBegin(c)
    \/ \E c \in Readers : ReadEnd(c)
    \/ \E c \in Readers : \E part \in Parts : ReaderEdit(c, part)
    \/ \E a \in StepActions : StepApply(a, {})
    \/ StepTick
    \/ StepRead
    \/ ResetBegin
    \/ ResetEnd
    \/ ResetRead

SpecCopy == Init /\ [][NextCopy]_vars

----------------------------------------------------------------------------
(* Free-running Tickers: each Ticker is driven by a thread of its own that *)
(* calls tick() in a loop, as examples/test_timing.py does.                *)

\* tick() by a caller the scheduler may delay
Tick(id, late) ==
    /\ nticks[id] < MaxTicks
    /\ TickStep(id, late)
    /\ UNCHANGED <<bvars, budget, svars, reader>>

\* the caller spends one clock unit between two calls
Delay ==
    /\ lateBudget > 0
    /\ now' = now + 1
    /\ lateBudget' = lateBudget - 1
    /\ UNCHANGED <<ticker, start_seq, nticks, ret, wasLate, resets>>
    /\ UNCHANGED <<bvars, budget, svars, reader>>

\* Ticker.reset(s)
Reset(id, s) ==
    /\ resets < MaxResets
    /\ ticker' = [ticker EXCEPT ![id] = TickerReset(ticker[id], s, now)]
    /\ start_seq' = [start_seq EXCEPT ![id] = s]
    /\ nticks' = [nticks EXCEPT ![id] = 0]
    /\ ret' = [ret EXCEPT ![id] = NoResult]
    /\ wasLate' = [wasLate EXCEPT ![id] = FALSE]
    /\ resets' = resets + 1
    /\ UNCHANGED <<now, lateBudget>>
    /\ UNCHANGED <<bvars, budget, svars, reader>>

\* two Tickers of one frequency constructed at the same clock reading
InitTicker ==
    /\ now = 0
    /\ \E hz \in {ControlHz, TelemetryHz} :
       \E s \in [TickerIds -> StartSeqs] :
          /\ ticker = [id \in TickerIds |-> TickerNew(hz, s[id], 0)]
          /\ start_seq = s
    /\ nticks = [id \in TickerIds |-> 0]
    /\ ret = [id \in TickerIds |-> NoResult]
    /\ wasLate = [id \in TickerIds |-> FALSE]
    /\ resets = 0
    /\ lateBudget = MaxLate
    /\ InitBridge

NextTicker ==
    \/ \E id \in TickerIds : \E late \in 0..MaxLate : Tick(id, late)
    \/ Delay
    \/ \E id \in TickerIds : \E s \in StartSeqs : Reset(id, s)

SpecTicker == InitTicker /\ [][NextTicker]_vars

----------------------------------------------------------------------------
(* Construction of Tickers: a caller constructs Tickers with frequencies   *)
(* of either sign and ticks the ones it holds.                             *)

MaxConstructs == 2  \* Ticker constructions in one run

\* the frequencies tried
HzValues == {-ControlHz, 0, 1, ControlHz}

\* ticker = Ticker(hz, start_seq): the caller's variable is assigned only
\* when the constructor returns
Construct(id, hz, s) ==
    /\ budget > 0
    /\ budget' = budget - 1
    /\ cargs' = [op |-> "Ticker", id |-> id, hz |-> hz, s |-> s,
                 raised |-> IF TickerInitRaises(hz) THEN "ValueError" ELSE "none"]
    /\ IF TickerInitRaises(hz)
       THEN UNCHANGED <<ticker, start_seq, nticks, ret, wasLate>>
       ELSE /\ ticker' = [ticker EXCEPT ![id] = TickerNew(hz, s, now)]
            /\ start_seq' = [start_seq EXCEPT ![id] = s]
            /\ nticks' = [nticks EXCEPT ![id] = 0]
            /\ ret' = [ret EXCEPT ![id] = NoResult]
            /\ wasLate' = [wasLate EXCEPT ![id] = FALSE]
    /\ UNCHANGED <<now, resets, lateBudget, bvars, cpc, step_count, last_action,
                   smoother, actuator, stepTrace, stepRet, reader>>

\* tick() on a Ticker the caller holds
ConstructTick(id) ==
    /\ nticks[id] < MaxTicks
    /\ TickStep(id, 0)
    /\ UNCHANGED <<bvars, budget, svars, reader>>

InitConstruct ==
    /\ now = 0
    /\ ticker = [id \in TickerIds |->
                    TickerNew(IF id = "control" THEN ControlHz ELSE TelemetryHz, 0, 0)]
    /\ start_seq = [id \in TickerIds |-> 0]
    /\ nticks = [id \in TickerIds |-> 0]
    /\ ret = [id \in TickerIds |-> NoResult]
    /\ wasLate = [id \in TickerIds |-> FALSE]
    /\ resets = 0
    /\ lateBudget = 0
    /\ running = FALSE
    /\ connected = FALSE
    /\ latest_frame = NoFrame
    /\ telemetry_thread = 0
    /\ poller = [p \in PollerIds |-> [pc |-> "unborn", seq |-> -1, fails |-> 0,
                                     holds |-> FALSE]]
    /\ src = TRUE
    /\ pubCount = 0
    /\ budget = MaxConstructs
    /\ cpc = "idle"
    /\ cargs = [op |-> "none", id |-> "control", hz |-> ControlHz, s |-> 0,
                raised |-> "none"]
    /\ step_count = 0
    /\ last_action = <<>>
    /\ smoother = SmootherNew(ModerateConfig)
    /\ actuator = AxisNeutral
    /\ stepTrace = <<>>
    /\ stepRet = NoStepRet
    /\ reader = [c \in Readers |-> [pc |-> "idle", floor |-> -1, got |-> NoObs,
                                   edited |-> {}, holds |-> FALSE]]

NextConstruct ==
    \/ \E id \in TickerIds : \E hz \in HzValues : \E s \in StartSeqs :
          Construct(id, hz, s)
    \/ \E id \in TickerIds : ConstructTick(id)

SpecConstruct == InitConstruct /\ [][NextConstruct]_vars

----------------------------------------------------------------------------
(* The 50-tick scenario: Tickers at the default rates, ticked by callers   *)
(* that add no delay, every sleep waking exactly at its deadline.          *)

TickOnTime(id) ==
    /\ nticks[id] < ScenarioTicks
    /\ now <= ticker[id].t_next
    /\ TickStep(id, 0)
    /\ UNCHANGED <<bvars, budget, svars, reader>>

InitFifty ==
    /\ now = 0
    /\ ticker = [id \in TickerIds |->
                    TickerNew(IF id = "control" THEN ControlHz ELSE TelemetryHz, 0, 0)]
    /\ start_seq = [id \in TickerIds |-> 0]
    /\ nticks = [id \in TickerIds |-> 0]
    /\ ret = [id \in TickerIds |-> NoResult]
    /\ wasLate = [id \in TickerIds |-> FALSE]
    /\ resets = 0
    /\ lateBudget = 0
    /\ InitBridge

NextFifty == \E id \in TickerIds : TickOnTime(id)

SpecFifty == InitFifty /\ [][NextFifty]_vars

----------------------------------------------------------------------------
(* The ActionSmoother on its own: a caller constructs it with one of the   *)
(* configurations and calls smooth() and reset() on it.  Repeating the     *)
(* target of the call before is free; a first target, a new target or a    *)
(* reset() is one of the MaxChanges changes of the run.                    *)

MaxSmooth == 10     \* smooth() calls on one ActionSmoother
MaxChanges == 2     \* changes of target and reset() calls in one run

\* the steering target 0.106: a float whose low-pass blend
\* alpha*T + (1-alpha)*T rounds away from T for alpha = 0.6
OffGridSteer == FRatio(106 * Scale, 1000)

Target(steer, throttle, brake, clutch) ==
    [ch \in Channels |->
        CASE ch = "steer" -> steer
          [] ch = "throttle" -> throttle
          [] ch = "brake" -> brake
          [] OTHER -> clutch]

\* the targets tried: full steering lock, values outside the valid ranges,
\* not-a-number, and in-range values
SmoothTargets ==
    {Target(0, 0, 0, 0),
     Target(Scale, 0, 0, 0),
     Target(-2 * Scale, 2 * Scale, Scale \div 2, 2 * Scale),
     Target(NaN, 0, 0, 0),
     Target(OffGridSteer, Scale, 0, 0),
     Target(-OffGridSteer, 0, Scale, Scale)}

\* smooth(steer, throttle, brake, clutch); the caller remembers the target,
\* the outputs its run of calls with this target started from (start) and
\* the number of calls of the run (run)
SmoothCall(a) ==
    /\ smoother.step_count < MaxSmooth
    /\ IF cargs.op = "smooth" /\ a = cargs.target
       THEN UNCHANGED budget
       ELSE budget > 0 /\ budget' = budget - 1
    /\ smoother' = Smooth(smoother, [ch \in Channels |-> a[ch]])
    /\ cargs' = [cargs EXCEPT
          !.target = a,
          !.op = "smooth",
          !.start = IF cargs.op = "smooth" /\ a = cargs.target THEN @
                    ELSE smoother.prev,
          !.run = IF cargs.op = "smooth" /\ a = cargs.target THEN @ + 1 ELSE 1]
    /\ UNCHANGED <<tvars, bvars, cpc, step_count, last_action, actuator,
                   stepTrace, stepRet, reader>>

\* ActionSmoother.reset()
SmootherResetCall ==
    /\ cargs.op = "smooth"
    /\ budget > 0
    /\ budget' = budget - 1
    /\ smoother' = SmootherReset(smoother)
    /\ cargs' = [cargs EXCEPT !.op = "reset"]
    /\ UNCHANGED <<tvars, bvars, cpc, step_count, last_action, actuator,
                   stepTrace, stepRet, reader>>

\* ActionSmoother(config), for each configuration
InitSmoother ==
    /\ now = 0
    /\ ticker = [id \in TickerIds |->
                    TickerNew(IF id = "control" THEN ControlHz ELSE TelemetryHz, 0, 0)]
    /\ start_seq = [id \in TickerIds |-> 0]
    /\ nticks = [id \in TickerIds |-> 0]
    /\ ret = [id \in TickerIds |-> NoResult]
    /\ wasLate = [id \in TickerIds |-> FALSE]
    /\ resets = 0
    /\ lateBudget = 0
    /\ running = FALSE
    /\ connected = FALSE
    /\ latest_frame = NoFrame
    /\ telemetry_thread = 0
    /\ poller = [p \in PollerIds |-> [pc |-> "unborn", seq |-> -1, fails |-> 0,
                                     holds |-> FALSE]]
    /\ src = TRUE
    /\ pubCount = 0
    /\ budget = MaxChanges
    /\ cpc = "idle"
    /\ cargs = [op |-> "new", target |-> Neutral, start |-> Neutral, run |-> 0]
    /\ step_count = 0
    /\ last_action = <<>>
    /\ \E cfg \in Configs : smoother = SmootherNew(cfg)
    /\ actuator = AxisNeutral
    /\ stepTrace = <<>>
    /\ stepRet = NoStepRet
    /\ reader = [c \in Readers |-> [pc |-> "idle", floor |-> -1, got |-> NoObs,
                                   edited |-> {}, holds |-> FALSE]]

NextSmoother ==
    \/ \E a \in SmoothTargets : SmoothCall(a)
    \/ SmootherResetCall

SpecSmoother == InitSmoother /\ [][NextSmoother]_vars

----------------------------------------------------------------------------
(* Claims *)

\* C1: each tick() returns the previous tick's sequence plus 1, and the
\* first tick after construction or reset(s) returns s, late or not.
C1_SequenceStepsByOne ==
    [][\A id \in TickerIds :
         nticks'[id] = nticks[id] + 1 =>
            ret'[id].seq = (IF nticks[id] = 0 THEN start_seq[id]
                            ELSE ret[id].seq + 1)]_vars

C1_Witness ==
    \E id \in TickerIds :
       /\ nticks[id] >= 2
       /\ wasLate[id]
       /\ start_seq[id] > 0
       /\ resets > 0

\* C2: two Tickers with the same start_time, interval and tick count have
\* the same next deadline, however late their ticks woke.
C2_DeadlineIgnoresLateness ==
    \A a, b \in TickerIds :
       ( /\ ticker[a].t_start = ticker[b].t_start
         /\ ticker[a].dt_target = ticker[b].dt_target
         /\ ticker[a].seq = ticker[b].seq
         /\ nticks[a] = nticks[b] )
       => ticker[a].t_next = ticker[b].t_next

C2_Witness ==
    /\ ticker["control"].t_start = ticker["telemetry"].t_start
    /\ ticker["control"].dt_target = ticker["telemetry"].dt_target
    /\ ticker["control"].seq = ticker["telemetry"].seq
    /\ nticks["control"] = nticks["telemetry"]
    /\ nticks["control"] >= 2
    /\ ticker["control"].t_last # ticker["telemetry"].t_last
    /\ wasLate["control"] /\ ~wasLate["telemetry"]

\* C3: a 10 Hz Ticker ticked 50 times with no delay has consumed 50 target
\* intervals from start_time at the 50th tick, and its total_drift is 0.
C3_FiftyTicksFiveSeconds ==
    \A id \in TickerIds :
       (ticker[id].hz = 10 /\ nticks[id] = ScenarioTicks /\ ~wasLate[id]) =>
          /\ ticker[id].t_last - ticker[id].t_start
                = ScenarioTicks * ticker[id].dt_target
          /\ ticker[id].total_drift = 0

\* C4: when the caller is never late, every step() that returns holds its
\* action for one full control interval before the observation is sampled,
\* the first and the second step after construction or reset() included.
C4_HeldOneInterval ==
    (stepRet.op = "step" /\ stepRet.kind = "ok" /\ stepRet.prompt)
        => stepRet.hold = ticker["control"].dt_target

\* C5: in every step() the events are, once each and in this order, the
\* write to the actuator, the control tick, the read of the cache.
C5_ActuatorTickRead ==
    /\ stepTrace \in { <<>>, <<"actuator">>, <<"actuator", "tick">>,
                       <<"actuator", "tick", "read">> }
    /\ (stepRet.op = "step" /\ stepRet.kind = "ok")
          => stepRet.trace = <<"actuator", "tick", "read">>

C5_Witness ==
    /\ stepRet.op = "step"
    /\ stepRet.kind = "ok"
    /\ stepRet.step_count >= 1
    /\ cpc = "idle"

\* C6: the frame step() returns for an action was published by the poller
\* after that action was written to the actuator.
C6_ObservationAfterAction ==
    (stepRet.op = "step" /\ stepRet.kind = "ok")
        => stepRet.frame.pub > stepRet.applyPub

\* C7: latest_obs() and step() never return an observation while no frame
\* has been published: they raise, and every observation they do return is
\* a frame the poller published.
C7_NoFrameRaises ==
    /\ \A c \in Readers :
          reader[c].got.kind = "ok" =>
             /\ reader[c].got.frame # NoFrame
             /\ reader[c].got.frame.pub \in 1..pubCount
    /\ stepRet.kind = "ok" =>
          /\ stepRet.frame # NoFrame
          /\ stepRet.frame.pub \in 1..pubCount
    /\ (pubCount = 0 /\ stepRet.op = "step") =>
          stepRet.kind \in {"RuntimeError", "ValueError"}

C7_Witness ==
    /\ pubCount = 0
    /\ stepRet.op = "step"
    /\ stepRet.kind = "RuntimeError"
    /\ stepRet.trace = <<"actuator", "tick", "read">>
    /\ \E c \in Readers : reader[c].pc = "idle" /\ reader[c].got.kind = "RuntimeError"

\* C8: a read never returns a frame whose sequence is lower than the
\* sequence of the last publish completed before the read began.
C8_LatestWins ==
    \A c \in Readers :
       reader[c].got.kind = "ok" => reader[c].got.frame.seq >= reader[c].floor

\* C9: at most one poller thread is alive, whatever connect() and close()
\* calls were made, a close() whose join timed out included.
C9_SingleWriter ==
    Cardinality({p \in PollerIds : IsAlive(p)}) <= 1

\* C10: an iteration of the poller whose read raises leaves the cache slot
\* as it was and the poller alive at its next tick, from where it can
\* publish again.
C10_BadReadSurvived ==
    [][\A p \in PollerIds :
         poller'[p].fails > poller[p].fails =>
            /\ latest_frame' = latest_frame
            /\ pubCount' = pubCount
            /\ poller'[p].pc = "tick"]_vars

C10_Witness ==
    \E p \in PollerIds :
       /\ poller[p].fails > 0
       /\ poller[p].pc = "tick"
       /\ latest_frame.pub = pubCount
       /\ latest_frame.pub >= 2
       /\ latest_frame.seq = poller[p].seq
       /\ \A q \in PollerIds : q # p => poller[q].pc = "unborn"

\* C11: an iteration of the poller that finds the source not connected
\* publishes nothing, leaves the cache slot as it was and leaves the poller
\* alive at its next tick, from where it publishes once the source is back.
C11_DisconnectedSkips ==
    [][\A p \in PollerIds :
         (poller[p].pc = "read" /\ ~src /\ poller'[p] # poller[p]) =>
            /\ latest_frame' = latest_frame
            /\ pubCount' = pubCount
            /\ poller'[p].pc = "tick"
            /\ poller'[p].fails = poller[p].fails
            /\ stepRet' = stepRet]_vars

C11_Witness ==
    \E p \in PollerIds :
       /\ \A q \in PollerIds : q # p => poller[q].pc = "unborn"
       /\ resets = 0
       /\ running
       /\ poller[p].fails = 0
       /\ poller[p].seq >= 1
       /\ latest_frame.seq = poller[p].seq
       /\ pubCount = 1

C14_OutputInRange ==
    \A ch \in Channels :
        /\ ~IsNaN(smoother.prev[ch])
        /\ smoother.config.lo[ch] <= smoother.prev[ch]
        /\ smoother.prev[ch] <= smoother.config.hi[ch]

\* C15: with rate limiting enabled no channel rises by more than its
\* maximum increase nor falls by more than its maximum decrease over one
\* smooth() call.
C15_RateLimited ==
    [][(smoother'.step_count = smoother.step_count + 1
        /\ smoother.config.enable_rate_limiting) =>
         \A ch \in Channels :
            /\ ~IsNaN(smoother'.prev[ch])
            /\ ~IsNaN(smoother.prev[ch])
            /\ smoother'.prev[ch] - smoother.prev[ch] <= smoother.config.up[ch]
            /\ smoother.prev[ch] - smoother'.prev[ch] <= smoother.config.down[ch]]_vars

\* C17: a smooth() call with an in-range target T, from any previous output
\* in range, never overshoots T (the output lies between the previous
\* output and T), so the distance to T never increases over repeated calls
\* with the same target.
C17_NoOvershoot ==
    [][smoother'.step_count = smoother.step_count + 1 =>
         \A ch \in Channels :
            LET T == cargs'.target[ch]
                prev == smoother.prev[ch]
                out == smoother'.prev[ch]
            IN  (/\ ~IsNaN(T) /\ ~IsNaN(prev)
                 /\ smoother.config.lo[ch] <= T /\ T <= smoother.config.hi[ch]) =>
                   /\ ~IsNaN(out)
                   /\ prev <= T => (prev <= out /\ out <= T)
                   /\ prev >= T => (T <= out /\ out <= prev)
                   /\ Abs(out - T) <= Abs(prev - T)]_vars

\* C18: with any preset, when a channel's previous output equals the
\* in-range target, smooth() returns the target and leaves the channel's
\* previous output as it was.
C18_ConvergedIsFixed ==
    [][(smoother'.step_count = smoother.step_count + 1
        /\ smoother.config \in Presets) =>
         \A ch \in Channels :
            (/\ ~IsNaN(cargs'.target[ch])
             /\ cargs'.target[ch] = smoother.prev[ch]) =>
               smoother'.prev[ch] = cargs'.target[ch]]_vars

\* C19: smooth(1.0, 0.0, 0.0, 0.0) called repeatedly from rest with the
\* moderate preset: after exactly 7 calls the steering output is at least
\* 7 times the maximum rate and at most 1.0, and by call 10 it equals the
\* target.
C19_SevenCalls ==
    (/\ smoother.config = ModerateConfig
     /\ cargs.op = "smooth"
     /\ cargs.target = Target(Scale, 0, 0, 0)
     /\ budget = MaxChanges - 1) =>
        /\ smoother.step_count = 7 =>
              /\ smoother.prev["steer"] >= 7 * smoother.config.up["steer"]
              /\ smoother.prev["steer"] <= Scale
        /\ smoother.step_count = 10 => smoother.prev["steer"] = Scale

\* C20: after reset() every channel's previous output is 0, the step count
\* and the accumulated deltas are 0, and get_stats() reports no steps.
C20_ResetZeroes ==
    cargs.op = "reset" =>
        /\ smoother.prev = Neutral
        /\ smoother.step_count = 0
        /\ \A ch \in StatChannels : smoother.total[ch] = 0
        /\ GetStats(smoother).step_count = 0

\* C16: on every channel the command a step() writes to the actuator differs
\* from the command the actuator held before by at most the channel's rate
\* limit, the first command of an episode being measured from neutral, also
\* in runs where actuator calls fail.
C16_ActuatorRateLimited ==
    [][(cpc = "idle" /\ cpc' = "step_tick") =>
         \A ch \in Channels :
            /\ actuator'[ch] - actuator[ch]
                  <= AxisDistance(ch, smoother.config.up[ch])
            /\ actuator[ch] - actuator'[ch]
                  <= AxisDistance(ch, smoother.config.down[ch])]_vars

\* C25: reset(s) at time t re-anchors the schedule at t: total drift and
\* max jitter are 0 from the reset until the next tick, and that tick
\* returns sequence s and is due at t plus one target interval.
C25_ResetReanchors ==
    [][\A id \in TickerIds :
         /\ (resets' = resets + 1
             /\ <<ticker'[id], start_seq'[id], nticks'[id]>>
                   # <<ticker[id], start_seq[id], nticks[id]>>) =>
               /\ ticker'[id].seq = start_seq'[id]
               /\ ticker'[id].t_start = now
               /\ ticker'[id].t_next = now + ticker[id].dt_target
               /\ ticker'[id].total_drift = 0
               /\ ticker'[id].max_jitter = 0
         /\ (nticks[id] = 0 /\ nticks'[id] = 1) =>
               /\ ret'[id].seq = start_seq[id]
               /\ ticker[id].t_next = ticker[id].t_start + ticker[id].dt_target
               /\ ticker[id].total_drift = 0
               /\ ticker[id].max_jitter = 0
               /\ now <= ticker[id].t_next => ret'[id].t_wall >= ticker[id].t_next]_vars

C25_Witness ==
    \E id \in TickerIds :
       /\ resets > 0
       /\ ticker[id].t_start > UnitsPerSecond \div ticker[id].hz
       /\ lateBudget < MaxLate
       /\ start_seq[id] > 0
       /\ nticks[id] = 1
       /\ ret[id].seq = start_seq[id]

\* C26: a tick() called at or past its deadline does not sleep, reports the
\* whole time since the previous tick as its actual interval, and sets the
\* following deadline as an on-time tick would have.
C26_LateTickImmediate ==
    [][\A id \in TickerIds :
         (nticks'[id] = nticks[id] + 1 /\ now >= ticker[id].t_next) =>
            /\ now' = now
            /\ ret'[id].t_wall = now
            /\ ret'[id].dt_actual = now - ticker[id].t_last
            /\ ticker'[id].t_next
                  = TickerNext(ticker[id], ticker[id].t_next).t_next]_vars

C26_Witness ==
    \E id \in TickerIds :
       /\ nticks[id] >= 2
       /\ ret[id].t_wall > ticker[id].t_next
       /\ ret[id].dt_actual > 0
       /\ ret[id].dt_actual # ticker[id].dt_target

\* C27: constructing a Ticker with a frequency of zero or below raises
\* ValueError and gives the caller no Ticker; every positive frequency is
\* accepted.
C27_NonPositiveHzRejected ==
    [][(cargs'.op = "Ticker" /\ budget' = budget - 1) =>
         IF cargs'.hz <= 0
         THEN /\ cargs'.raised = "ValueError"
              /\ ticker' = ticker
         ELSE /\ cargs'.raised = "none"
              /\ ticker'[cargs'.id].hz = cargs'.hz
              /\ ticker'[cargs'.id].seq = cargs'.s
              /\ ticker'[cargs'.id].t_next
                    = now + UnitsPerSecond \div cargs'.hz]_vars

C27_Witness ==
    /\ cargs.op = "Ticker"
    /\ cargs.hz = 0
    /\ cargs.raised = "ValueError"
    /\ budget <= MaxConstructs - 2
    /\ \E id \in TickerIds : ticker[id].hz = 1 /\ nticks[id] > 0

\* C30: between ticks, for a Ticker with start sequence 0, next_due_time is
\* start_time + (sequence + 1) * target_interval, sequence being the number
\* the next tick will emit.
C30_DeadlineFormula ==
    \A id \in TickerIds :
       start_seq[id] = 0 =>
          ticker[id].t_next
             = ticker[id].t_start + (ticker[id].seq + 1) * ticker[id].dt_target

\* C22: the first step() after a stepper reset() made mid-session is
\* smoothed from neutral previous outputs on every channel, returns control
\* tick sequence 0 and step_count 0, and leaves the step counter at 1.
C22_FirstStepAfterReset ==
    [][/\ (cpc = "idle" /\ cpc' = "step_tick" /\ resets > 0
           /\ nticks["control"] = 0) =>
             /\ smoother.prev = Neutral
             /\ smoother'.prev
                   = Smooth(SmootherNew(smoother.config),
                            ParseAction(last_action')).prev
       /\ (cpc = "step_read" /\ cpc' = "idle" /\ resets > 0
           /\ nticks["control"] = 1) =>
             /\ stepRet'.step_seq = 0
             /\ stepRet'.kind = "ok" =>
                   (stepRet'.step_count = 0 /\ step_count' = 1)]_vars

C22_Witness ==
    /\ resets > 0
    /\ cpc = "idle"
    /\ nticks["control"] = 1
    /\ smoother.step_count >= 2
    /\ smoother.prev # Neutral
    /\ stepRet.op = "step"
    /\ stepRet.kind = "ok"
    /\ stepRet.step_seq = 0
    /\ step_count = 1

\* C23: the observation stepper reset() returns comes from a frame published
\* after the restart sequence was triggered, never from an earlier one.
C23_ResetObservationFresh ==
    (stepRet.op = "reset" /\ stepRet.kind = "ok")
        => stepRet.frame.pub > stepRet.applyPub

\* C21: a step() with an action of at least 3 components goes on to the
\* tick whatever the values are: every channel given out of its legal range
\* is logged as a warning and reaches the actuator clamped into the range.
C21_OutOfRangeClamped ==
    [][(cpc = "idle" /\ smoother'.step_count = smoother.step_count + 1) =>
         /\ cpc' = "step_tick"
         /\ \A ch \in Channels :
               LET v == RawAction(last_action')[ch]
               IN  ~(FLe(smoother.config.lo[ch], v) /\ FLe(v, smoother.config.hi[ch])) =>
                      /\ ch \in cargs'.warned
                      /\ FLe(smoother.config.lo[ch], smoother'.prev[ch])
                      /\ FLe(smoother'.prev[ch], smoother.config.hi[ch])]_vars

C28_ReadsAreCopies ==
    /\ latest_frame.edits = {}
    /\ \A c \in Readers : reader[c].got.frame.edits = {}
    /\ stepRet.frame.edits = {}

\* C29: a bridge constructed with smoothing_config=None has smoothing
\* disabled: apply_action() passes the caller's values to the actuator as
\* they are and get_smoother_stats() returns the empty dict.
C29_NoneDisablesSmoothing ==
    [][(cargs.smoothing_config = NoConfig /\ cpc = "idle" /\ cpc' = "step_tick") =>
         /\ actuator' = SetControls(actuator, ParseAction(last_action'), {})
         /\ DOMAIN GetSmootherStats(smoother') = {}]_vars

\* C31: the start sequence only relabels ticks.  For callers that are never
\* late, the k-th tick after anchoring is returned k target intervals after
\* start_time, so two Tickers of one frequency anchored at the same time
\* return their k-th ticks at the same time whatever their start sequences.
C31_StartSeqOnlyRelabels ==
    /\ \A id \in TickerIds :
          (~wasLate[id] /\ nticks[id] >= 1) =>
             ret[id].t_wall = ticker[id].t_start + nticks[id] * ticker[id].dt_target
    /\ \A i, j \in TickerIds :
          (/\ ~wasLate[i] /\ ~wasLate[j]
           /\ ticker[i].t_start = ticker[j].t_start
           /\ ticker[i].dt_target = ticker[j].dt_target
           /\ nticks[i] = nticks[j] /\ nticks[i] >= 1) =>
             ret[i].t_wall = ret[j].t_wall

\* C32: each Ticker and the smoother are touched by one thread only.  While
\* a poller thread is alive, a step that changes the telemetry Ticker is a
\* step of a poller thread, and a step that changes the control Ticker or
\* the smoother is a step of the caller's thread, never of a poller.
C32_OneThreadEach ==
    [][LET PollerStep == \E p \in PollerIds : IsAlive(p) /\ poller'[p] # poller[p]
       IN  (\E p \in PollerIds : IsAlive(p)) =>
              /\ ticker'["telemetry"] # ticker["telemetry"] => PollerStep
              /\ (ticker'["control"] # ticker["control"] \/ smoother' # smoother) =>
                    ~PollerStep]_vars

\* C33: latest_obs() cannot be made to wait for a frame.  The lock is held
\* by at most one thread, and only by a poller between building a frame and
\* assigning it or by a reader inside its check and copy, never by a thread
\* that ticks, reads the source, backs off or joins; and every latest_obs()
\* that has begun returns.
C33_ReadNeverBlocks ==
    /\ [](/\ Cardinality(Holders) <= 1
          /\ \A p \in PollerIds : poller[p].holds => poller[p].pc = "publish"
          /\ \A c \in Readers : reader[c].holds => reader[c].pc = "reading")
    /\ \A c \in Readers : (reader[c].pc = "reading") ~> (reader[c].pc = "idle")

\* a consumer waits for the lock while a poller is inside its with-block
C33_Witness ==
    \E c \in Readers : \E p \in PollerIds :
       /\ reader[c].pc = "reading" /\ ~reader[c].holds
       /\ poller[p].holds

\* C34: with the low-pass disabled and rate limiting enabled, a run of
\* smooth() calls with one in-range target T has every channel at T from
\* call ceil(d / r) of the run on, d being the channel's distance to T when
\* the run began and r its rate limit in the direction of travel.
C34_RateOnlyCallCount ==
    LET cfg == smoother.config
        T == cargs.target
    IN  (/\ cargs.op = "smooth"
         /\ cfg.enable_rate_limiting /\ ~cfg.enable_ema_smoothing
         /\ \A ch \in Channels :
               /\ FLe(cfg.lo[ch], T[ch]) /\ FLe(T[ch], cfg.hi[ch])
               /\ ~IsNaN(cargs.start[ch])) =>
           \A ch \in Channels :
              LET d == Abs(T[ch] - cargs.start[ch])
                  r == IF T[ch] > cargs.start[ch] THEN cfg.up[ch] ELSE cfg.down[ch]
              IN  cargs.run >= (d + r - 1) \div r => smoother.prev[ch] = T[ch]

\* C35: with both stages enabled every channel of the result of smooth()
\* equals clamp(prev + alpha * clip(clamp(target) - prev, -max_decrease,
\* +max_increase)), prev being the previous smoothed output, for every
\* target and every previous output.
C35_RateLimitThenLowPass ==
    [][(/\ smoother'.step_count = smoother.step_count + 1
        /\ smoother.config.enable_rate_limiting
        /\ smoother.config.enable_ema_smoothing) =>
          \A ch \in Channels :
             LET cfg == smoother.config
                 prev == smoother.prev[ch]
                 delta == FSub(Clip(cargs'.target[ch], cfg.lo[ch], cfg.hi[ch]), prev)
             IN  smoother'.prev[ch] =
                    Clip(FAdd(prev, FMul(cfg.alpha[ch],
                                         Clip(delta, -cfg.down[ch], cfg.up[ch]))),
                         cfg.lo[ch], cfg.hi[ch])]_vars

\* C36: a step() whose action has fewer than 3 components fails with
\* ValueError before any side effect: nothing is written to the actuator,
\* the smoother, the Tickers, the step counter and last_action are as they
\* were, and no action of fewer than 3 components is ever recorded.
C36_ShortActionRejected ==
    [][/\ (stepRet'.kind = "ValueError" /\ stepRet' # stepRet) =>
             /\ actuator' = actuator
             /\ smoother' = smoother
             /\ ticker' = ticker
             /\ step_count' = step_count
             /\ last_action' = last_action
             /\ cpc' = "idle"
       /\ last_action' # <<>> => Len(last_action') >= 3]_vars

\* a short action was rejected after a step that went through
C36_Witness ==
    /\ stepRet.op = "step" /\ stepRet.kind = "ValueError"
    /\ step_count >= 1
    /\ smoother.step_count >= 1
    /\ Len(last_action) >= 3

\* C37: frames are published with strictly increasing sequence numbers, so
\* the sequence held by the cache slot, which is what successive
\* latest_obs() calls of a consumer see, never decreases, whatever
\* connect(), close() and reset() calls are made.
C37_PublishedSeqIncreases ==
    [][(latest_frame # NoFrame /\ latest_frame'.pub > latest_frame.pub) =>
          latest_frame'.seq > latest_frame.seq]_vars

\* C38: in the metadata of every successful step() step_seq, the control
\* Ticker's sequence, equals step_count, the stepper's counter, after any
\* sequence of step() calls, failed step() calls and reset() calls.
C38_SeqEqualsCount ==
    (stepRet.op = "step" /\ stepRet.kind = "ok") =>
       stepRet.step_seq = stepRet.step_count

====
